---- MODULE Spec2Model ----
(***************************************************************************)
(* Energy splitting (openstf/model/split_energy.py).                       *)
(*                                                                         *)
(* Numbers.  Coefficients, loads and errors are fixed-point integers in    *)
(* units of 0.05, so the 0.1 noise floor of find_components is 2 units.    *)
(* The 30% rule is scale free and is computed on cross-multiplied          *)
(* integers.  Reference profiles are plain non-negative integers.          *)
(*                                                                         *)
(* Data.  A dict is a sequence of [k, v] entries with distinct keys, in    *)
(* insertion order.  A DataFrame of coefficients is a heap object          *)
(* [obj, rows]; `obj` is the Python object identity.  An input table is    *)
(* [columns, index, values] with one value row per index entry.            *)
(***************************************************************************)
EXTENDS Integers, Sequences, FiniteSets, TLC

VARIABLES
    pc,                     \* position of split_energy
    pid,                    \* argument of split_energy
    pj,                     \* prediction job fetched from the database
    input_split_function,   \* input table fetched from the database
    components,             \* components frame returned by find_components
    coefdict,               \* coefficient dict (fitted weights, then MAE)
    coefsdf,                \* candidate coefficient record
    mean_coefs,             \* historical mean coefficients
    valid,                  \* outcome of are_new_coefs_valid
    last_coefdict,          \* last known coefficients
    result,                 \* value returned by split_energy
    error,                  \* exception that left split_energy
    calls,                  \* collaborator calls made, in order
    clock,                  \* last reading of datetime.utcnow()
    nobj,                   \* number of DataFrame objects allocated
    call,                   \* direct call of a function: name and arguments
    mem,                    \* the arguments' objects as the callee leaves them
    ret,                    \* what the direct call returned
    todolist,               \* the todolist table of Tracy jobs, by job id
    todolist0,              \* the todolist table before any run_tracy
    runs                    \* the invocations of run_tracy

vars == <<pc, pid, pj, input_split_function, components, coefdict,
          coefsdf, mean_coefs, valid, last_coefdict, result, error, calls,
          clock, nobj, call, mem, ret, todolist, todolist0, runs>>

----------------------------------------------------------------------------
(* Bounds of the model *)

\* datetime.utcnow() reads 0..MaxClock
MaxClock == 1

\* the historical mean holds at most MaxMeanKeys coefficients
MaxMeanKeys == 2

\* the todolist table holds at most MaxJobs jobs
MaxJobs == 2

----------------------------------------------------------------------------
(* Program constants *)

\* COEF_MAX_PCT_DIFF = 0.3, as the fraction 3 / 10
COEF_MAX_PCT_DIFF_NUM == 3
COEF_MAX_PCT_DIFF_DEN == 10

\* the 0.1 of `coefs[coefs < 0.1] = 0`, in units of 0.05
ALMOST_ZERO == 2

\* the 10 of `nedu_scaler = (load.max() - load.min()) / 10`
NEDU_DIVISOR == 10

\* hours in a day: Timestamp.date() drops the time of day
HOURS_PER_DAY == 24

\* p_wind_guess = ppv_guess = 1.0, in units of 0.05
INITIAL_GUESS == 20

----------------------------------------------------------------------------
(* Arithmetic and sequences *)

Abs(x) == IF x < 0 THEN -x ELSE x

RECURSIVE SumSeq(_)
SumSeq(s) == IF s = <<>> THEN 0 ELSE Head(s) + SumSeq(Tail(s))

RECURSIVE MinSeq(_)
MinSeq(s) ==
    IF Len(s) = 1 THEN s[1]
    ELSE LET m == MinSeq(Tail(s)) IN IF s[1] < m THEN s[1] ELSE m

RECURSIVE MaxSeq(_)
MaxSeq(s) ==
    IF Len(s) = 1 THEN s[1]
    ELSE LET m == MaxSeq(Tail(s)) IN IF s[1] > m THEN s[1] ELSE m

\* all sequences over S of length at most n
RECURSIVE SeqsUpTo(_, _)
SeqsUpTo(S, n) ==
    IF n = 0 THEN {<<>>}
    ELSE LET shorter == SeqsUpTo(S, n - 1)
         IN  shorter \cup {Append(s, x) : s \in shorter, x \in S}

\* all sequences over S of length exactly n
SeqsOfLen(S, n) == {s \in SeqsUpTo(S, n) : Len(s) = n}

----------------------------------------------------------------------------
(* Python dict, as an ordered sequence of entries *)

Keys(d) == [i \in DOMAIN d |-> d[i].k]
Values(d) == [i \in DOMAIN d |-> d[i].v]
HasKey(d, key) == \E i \in DOMAIN d : d[i].k = key
Get(d, key) == d[CHOOSE i \in DOMAIN d : d[i].k = key].v
DistinctKeys(d) == \A i, j \in DOMAIN d : d[i].k = d[j].k => i = j

\* dict.update({key: value}): overwrite in place, or append a new entry
DictUpdate(d, key, value) ==
    IF HasKey(d, key)
    THEN [i \in DOMAIN d |-> IF d[i].k = key THEN [k |-> key, v |-> value] ELSE d[i]]
    ELSE Append(d, [k |-> key, v |-> value])

\* the entries of d other than key
WithoutKey(d, key) == SelectSeq(d, LAMBDA e : e.k # key)

\* {name: value for name, value in zip(names, values)}
ZipDict(names, values) ==
    [i \in 1..(IF Len(names) < Len(values) THEN Len(names) ELSE Len(values))
        |-> [k |-> names[i], v |-> values[i]]]

----------------------------------------------------------------------------
(* Input tables *)

Column(df, c) == [r \in DOMAIN df.values |-> df.values[r][c]]

\* df.iloc[:, 1:].values.T : one sequence per reference column
XData(df) == [j \in 1..(Len(df.columns) - 1) |-> Column(df, j + 1)]

\* Timestamp.date(): timestamps count hours, dates count days
Date(ts) == ts \div HOURS_PER_DAY

AllColumns == <<"load", "wind_ref", "pv_ref", "tdcv1", "tdcv2">>

\* the tables the database may hand out: no, one and two standard profiles;
\* a single row, a sorted index and an unsorted index
InputTables ==
    { [columns |-> SubSeq(AllColumns, 1, 3),
       index   |-> <<30>>,
       values  |-> << <<40, 1, 1>> >>],
      [columns |-> SubSeq(AllColumns, 1, 4),
       index   |-> <<25, 50>>,
       values  |-> << <<40, 1, 0, 1>>, <<60, 0, 2, 1>> >>],
      [columns |-> AllColumns,
       index   |-> <<50, 3>>,
       values  |-> << <<20, 1, 1, 0, 1>>, <<0, 0, 1, 2, 0>> >>] }

----------------------------------------------------------------------------
(* are_new_coefs_valid *)

\* The loop of are_new_coefs_valid from the i-th key of mean_coefs on.
\* "KeyError" is the lookup new_coefs[key] of a key new_coefs lacks.
RECURSIVE ValidFrom(_, _, _)
ValidFrom(new, mean, i) ==
    IF i > Len(mean) THEN "True"
    ELSE LET key == mean[i].k
         IN  IF ~HasKey(new, key) THEN "KeyError"
             ELSE LET diff == Abs(mean[i].v - Get(new, key))
                  IN  IF diff * COEF_MAX_PCT_DIFF_DEN
                            > COEF_MAX_PCT_DIFF_NUM * Abs(mean[i].v)
                      THEN "False"
                      ELSE ValidFrom(new, mean, i + 1)

\* the loop with the boundary excluded: diff >= 0.3 * |mean| rejects
RECURSIVE ValidFromStrict(_, _, _)
ValidFromStrict(new, mean, i) ==
    IF i > Len(mean) THEN "True"
    ELSE LET key == mean[i].k
         IN  IF ~HasKey(new, key) THEN "KeyError"
             ELSE LET diff == Abs(mean[i].v - Get(new, key))
                  IN  IF diff * COEF_MAX_PCT_DIFF_DEN
                            >= COEF_MAX_PCT_DIFF_NUM * Abs(mean[i].v)
                      THEN "False"
                      ELSE ValidFromStrict(new, mean, i + 1)

are_new_coefs_valid_strict(new, mean) == ValidFromStrict(new, mean, 1)

\* the validator refusing a job that has no history
are_new_coefs_valid_needs_history(new, mean) ==
    IF mean = <<>> THEN "False" ELSE ValidFrom(new, mean, 1)

\* the loop reading new_coefs.get(key, 0): a key new_coefs lacks counts as 0
RECURSIVE ValidFromDefault(_, _, _)
ValidFromDefault(new, mean, i) ==
    IF i > Len(mean) THEN "True"
    ELSE LET key == mean[i].k
             value == IF HasKey(new, key) THEN Get(new, key) ELSE 0
         IN  IF Abs(mean[i].v - value) * COEF_MAX_PCT_DIFF_DEN
                   > COEF_MAX_PCT_DIFF_NUM * Abs(mean[i].v)
             THEN "False"
             ELSE ValidFromDefault(new, mean, i + 1)

are_new_coefs_valid_default(new, mean) == ValidFromDefault(new, mean, 1)

are_new_coefs_valid(new, mean) == ValidFrom(new, mean, 1)

----------------------------------------------------------------------------
(* convert_coefdict_to_coefsdf *)

NoFrame == [obj |-> 0, rows |-> <<>>]

\* the frame with the period taken from the first and the last index entry
convert_coefdict_to_coefsdf_first_last(job, df, cd, now, obj) ==
    [obj  |-> obj,
     rows |-> [i \in DOMAIN cd |->
                 [coef_name  |-> cd[i].k,
                  coef_value |-> cd[i].v,
                  pid        |-> job.id,
                  date_start |-> Date(df.index[1]),
                  date_end   |-> Date(df.index[Len(df.index)]),
                  created    |-> now]]]

\* the frame built at lines 106-119; now is the reading of datetime.utcnow()
\* and obj the identity of the new DataFrame
convert_coefdict_to_coefsdf(job, df, cd, now, obj) ==
    LET names  == Keys(cd)
        values == Values(cd)
    IN  [obj  |-> obj,
         rows |-> [i \in DOMAIN names |->
                     [coef_name  |-> names[i],
                      coef_value |-> values[i],
                      pid        |-> job.id,
                      date_start |-> Date(MinSeq(df.index)),
                      date_end   |-> Date(MaxSeq(df.index)),
                      created    |-> now]]]

\* what convert_coefdict_to_coefsdf leaves of its mutable arguments: it reads
\* the dict through list(...) copies and assigns columns to the new frame only
convert_arguments_after(df, cd) == [df |-> df, coefdict |-> cd]

----------------------------------------------------------------------------
(* find_components *)

\* weighted_sum(x, *args) = np.dot(x.T, weights): one value per row
weighted_sum(x, args) ==
    IF Len(x) # Len(args) THEN <<"Exception">>
    ELSE [r \in DOMAIN x[1] |->
            SumSeq([j \in DOMAIN x |-> x[j][r] * args[j]])]

\* p0 = [p_wind_guess, ppv_guess] + (len(df.columns) - 3) * [nedu_scaler]
InitialGuess(df) ==
    LET load == Column(df, 1)
        nedu_scaler == (MaxSeq(load) - MinSeq(load)) \div NEDU_DIVISOR
    IN  [j \in 1..(Len(df.columns) - 1) |->
            IF j <= 2 THEN INITIAL_GUESS ELSE nedu_scaler]

\* coefs[coefs < 0.1] = 0
Sanitise(coefs) ==
    [j \in DOMAIN coefs |-> IF coefs[j] < ALMOST_ZERO THEN 0 ELSE coefs[j]]

\* the residual without the factor -1
Residu_of_diff(load, inschatting) == inschatting - load

\* -1 * components.iloc[:, 0:2].diff(axis=1).iloc[:, 1]
\* diff(axis=1) of [load, Inschatting] holds Inschatting - load in column 1
Residu(load, inschatting) == -1 * (inschatting - load)

\* the frame with the estimate rebuilt from the weights as fitted, before
\* the almost-zero ones are set to zero
ComponentsOf_fitted_estimate(df, fitted) ==
    LET coefs  == Sanitise(fitted)
        x      == XData(df)
        hist   == weighted_sum(x, fitted)
        histp0 == weighted_sum(x, InitialGuess(df))
    IN  [r \in DOMAIN df.values |->
            [load              |-> df.values[r][1],
             Inschatting       |-> hist[r],
             p0                |-> histp0[r],
             Windopwek         |-> df.values[r][2] * coefs[1],
             Zonne_opwek       |-> df.values[r][3] * coefs[2],
             StandaardVerbruik |->
                 SumSeq([c \in 1..(Len(df.columns) - 3) |->
                            df.values[r][c + 3] * coefs[c + 2]]),
             Residu            |-> Residu(df.values[r][1], hist[r])]]

\* lines 172-192, given the weights curve_fit returned
ComponentsOf(df, fitted) ==
    LET coefs  == Sanitise(fitted)
        x      == XData(df)
        hist   == weighted_sum(x, coefs)
        histp0 == weighted_sum(x, InitialGuess(df))
    IN  [r \in DOMAIN df.values |->
            [load              |-> df.values[r][1],
             Inschatting       |-> hist[r],
             p0                |-> histp0[r],
             Windopwek         |-> df.values[r][2] * coefs[1],
             Zonne_opwek       |-> df.values[r][3] * coefs[2],
             StandaardVerbruik |->
                 SumSeq([c \in 1..(Len(df.columns) - 3) |->
                            df.values[r][c + 3] * coefs[c + 2]]),
             Residu            |-> Residu(df.values[r][1], hist[r])]]

\* coefdict = {name: value for name, value in zip(df.columns[1:], coefs)}
CoefdictOf(df, fitted) == ZipDict(Tail(df.columns), Sanitise(fitted))

find_components(df, fitted) ==
    [components |-> ComponentsOf(df, fitted),
     coefdict   |-> CoefdictOf(df, fitted)]

\* what curve_fit may return: one weight per reference column, inside the
\* bounds (0, inf) when zero_bound and (-inf, inf) otherwise
FittedValues(zero_bound) ==
    IF zero_bound THEN {0, 1, 2, 20} ELSE {-20, -1, 0, 1, 2, 20}

CurveFitResults(df, zero_bound) ==
    SeqsOfLen(FittedValues(zero_bound), Len(df.columns) - 1)

----------------------------------------------------------------------------
(* the mean absolute error of split_energy, lines 44-45 *)

\* error = components[["load", "Inschatting"]].diff(axis=1).iloc[:, 1]
\* mae = error.abs().mean(), rounded down to the fixed-point unit
MeanAbsoluteError(comps) ==
    SumSeq([r \in DOMAIN comps |-> Abs(comps[r].Inschatting - comps[r].load)])
        \div Len(comps)

----------------------------------------------------------------------------
(* What the collaborators may hand to split_energy *)

Pids == {307, 308}

NoJob == [id |-> 0]
NoTable == [columns |-> <<>>, index |-> <<>>, values |-> <<>>]

\* db.get_energy_split_coefs(pj, mean=True): {} when the job has no history,
\* else means of stored coefficients; MAE is stored with the weights, and
\* tdcv2 is a profile only some input tables hold
MeanEntries == {[k |-> key, v |-> value] :
                    key \in {"wind_ref", "MAE", "tdcv2"}, value \in {0, 20}}

MeanCoefSets == {d \in SeqsUpTo(MeanEntries, MaxMeanKeys) : DistinctKeys(d)}

\* db.get_energy_split_coefs(pj): the last stored coefficients
LastCoefSets ==
    { <<>>,
      <<[k |-> "wind_ref", v |-> 26]>>,
      <<[k |-> "wind_ref", v |-> 20], [k |-> "pv_ref", v |-> 20],
        [k |-> "MAE", v |-> 0]>> }

\* one collaborator call, as recorded in calls
Call(op, job_id, mode, df, outcome) ==
    [op |-> op, pid |-> job_id, mode |-> mode, df |-> df, outcome |-> outcome]

CallsOf(op) == SelectSeq(calls, LAMBDA c : c.op = op)

\* a call into the database or the solver returns, or raises
Outcomes == {"ok", "raised"}

\* readings datetime.utcnow() may give next
Readings == clock..MaxClock

----------------------------------------------------------------------------
(* Direct calls of the module's functions, with arguments of the caller's   *)
(* choice                                                                    *)

Idle == [fn |-> "none"]

CoefEntries(keys, values) == {[k |-> key, v |-> value] : key \in keys, value \in values}

\* coefficient dicts a caller may pass as new_coefs or coefdict
NewCoefSets ==
    {d \in SeqsUpTo(CoefEntries({"wind_ref", "pv_ref"},
                                {-27, -26, -20, 0, 1, 13, 14, 20, 26, 27}), 2) :
        DistinctKeys(d)}

\* mean dicts a caller may pass as mean_coefs
DirectMeanCoefSets ==
    {d \in SeqsUpTo(CoefEntries({"wind_ref", "pv_ref"}, {-20, 0, 20}), MaxMeanKeys) :
        DistinctKeys(d)}

DirectCalls ==
    {[fn |-> "are_new_coefs_valid", new_coefs |-> new, mean_coefs |-> mean] :
        new \in NewCoefSets, mean \in DirectMeanCoefSets}
    \cup
    {[fn |-> "convert_coefdict_to_coefsdf", pj |-> [id |-> p],
      input_split_function |-> df, coefdict |-> cd] :
        p \in Pids, df \in InputTables, cd \in NewCoefSets}
    \cup
    {[fn |-> "find_components", df |-> df, zero_bound |-> zb] :
        df \in InputTables, zb \in BOOLEAN}

\* the mutable objects among the arguments of a direct call
ArgumentObjects(c) ==
    IF c.fn = "convert_coefdict_to_coefsdf"
    THEN [fn |-> c.fn, df |-> c.input_split_function, coefdict |-> c.coefdict]
    ELSE Idle

----------------------------------------------------------------------------
(* run_tracy (openstf/tasks/run_tracy.py): the todolist table and the runs  *)

\* the invocations of run_tracy that may run side by side (two CRON runs)
Invocations == {"first", "second"}

\* the names a job may carry in its function column
TracyFunctions ==
    {"train_model", "train_specific_model", "optimize_hyperparameters",
     "optimize_hyperparameters_for_specific_pid", "unknown_function"}

\* a row of the todolist table; present is FALSE once the row is deleted
Row(function, inprogress) ==
    [function |-> function, inprogress |-> inprogress, present |-> TRUE]

DeletedRow == [function |-> "", inprogress |-> 0, present |-> FALSE]

\* the tables a run may find: up to MaxJobs jobs, each pending (0), in
\* progress (1) or failed (2)
TodoLists ==
    UNION {[1..n -> {Row(f, flag) : f \in TracyFunctions, flag \in {0, 1, 2}}] :
              n \in 0..MaxJobs}

\* a run that has not been started: no job list, nothing done
NewRun(at) ==
    [pc |-> at, seen |-> <<>>, jobs |-> <<>>, i |-> 0,
     dbops |-> <<>>, executed |-> <<>>, posts |-> <<>>]

NoTracy ==
    /\ todolist = <<>>
    /\ todolist0 = <<>>
    /\ runs = [p \in Invocations |-> NewRun("idle")]

----------------------------------------------------------------------------
(* split_energy, one action per statement that calls out *)

InitLocals ==
    /\ pj = NoJob
    /\ input_split_function = NoTable
    /\ components = <<>>
    /\ coefdict = <<>>
    /\ coefsdf = NoFrame
    /\ mean_coefs = <<>>
    /\ valid = "none"
    /\ last_coefdict = <<>>
    /\ result = NoFrame
    /\ error = ""
    /\ calls = <<>>
    /\ clock = 0
    /\ nobj = 0

\* either split_energy(pid) is invoked, or one function is called directly
Init ==
    /\ InitLocals
    /\ NoTracy
    /\ ret = Idle
    /\ \/ /\ pc = "get_prediction_job"
          /\ pid \in Pids
          /\ call = Idle
          /\ mem = Idle
       \/ /\ pc = "direct"
          /\ pid = 0
          /\ call \in DirectCalls
          /\ mem = ArgumentObjects(call)

direct == <<call, mem, ret>>

tracy == <<todolist, todolist0, runs>>

\* an exception leaves split_energy: nothing is returned
Raise(what) ==
    /\ pc' = "raised"
    /\ error' = what

\* line 32: pj = db.get_prediction_job(pid)
GetPredictionJob ==
    /\ pc = "get_prediction_job"
    /\ \E outcome \in Outcomes :
          /\ calls' = Append(calls, Call("get_prediction_job", pid, "", NoFrame, outcome))
          /\ IF outcome = "ok"
             THEN /\ pj' = [id |-> pid]
                  /\ pc' = "get_input"
                  /\ UNCHANGED error
             ELSE /\ Raise("get_prediction_job")
                  /\ UNCHANGED pj
    /\ UNCHANGED <<pid, input_split_function, components, coefdict, coefsdf,
                   mean_coefs, valid, last_coefdict, result, clock, nobj, direct, tracy>>

\* line 37: input_split_function = db.get_input_energy_splitting(pj)
GetInputEnergySplitting ==
    /\ pc = "get_input"
    /\ \E outcome \in Outcomes :
          /\ calls' = Append(calls, Call("get_input_energy_splitting", pj.id, "",
                                         NoFrame, outcome))
          /\ IF outcome = "ok"
             THEN /\ input_split_function' \in InputTables
                  /\ pc' = "find_components"
                  /\ UNCHANGED error
             ELSE /\ Raise("get_input_energy_splitting")
                  /\ UNCHANGED input_split_function
    /\ UNCHANGED <<pid, pj, components, coefdict, coefsdf, mean_coefs, valid,
                   last_coefdict, result, clock, nobj, direct, tracy>>

\* the fit tried a second time when curve_fit fails to converge
FindComponents_retry ==
    /\ pc = "find_components"
    /\ \E outcome \in Outcomes :
          /\ calls' = Append(calls, Call("curve_fit", pj.id, "", NoFrame, outcome))
          /\ IF outcome = "ok"
             THEN \E fitted \in CurveFitResults(input_split_function, TRUE) :
                     LET found == find_components(input_split_function, fitted)
                     IN  /\ components' = found.components
                         /\ coefdict' = found.coefdict
                         /\ pc' = "score"
                         /\ UNCHANGED error
             ELSE /\ IF CallsOf("curve_fit") = <<>>
                     THEN UNCHANGED <<pc, error>>
                     ELSE Raise("curve_fit")
                  /\ UNCHANGED <<components, coefdict>>
    /\ UNCHANGED <<pid, pj, input_split_function, coefsdf, mean_coefs, valid,
                   last_coefdict, result, clock, nobj, call, mem, ret, tracy>>

\* line 40: components, coefdict = find_components(input_split_function)
\* zero_bound takes its default, True; curve_fit raises when it fails to converge
FindComponents ==
    /\ pc = "find_components"
    /\ \E outcome \in Outcomes :
          /\ calls' = Append(calls, Call("curve_fit", pj.id, "", NoFrame, outcome))
          /\ IF outcome = "ok"
             THEN \E fitted \in CurveFitResults(input_split_function, TRUE) :
                     LET found == find_components(input_split_function, fitted)
                     IN  /\ components' = found.components
                         /\ coefdict' = found.coefdict
                         /\ pc' = "score"
                         /\ UNCHANGED error
             ELSE /\ Raise("curve_fit")
                  /\ UNCHANGED <<components, coefdict>>
    /\ UNCHANGED <<pid, pj, input_split_function, coefsdf, mean_coefs, valid,
                   last_coefdict, result, clock, nobj, direct, tracy>>

\* lines 44-47: the MAE joins coefdict, and the candidate record is built
ScoreAndConvert ==
    /\ pc = "score"
    /\ \E now \in Readings :
          LET mae == MeanAbsoluteError(components)
              enriched == DictUpdate(coefdict, "MAE", mae)
          IN  /\ coefdict' = enriched
              /\ coefsdf' = convert_coefdict_to_coefsdf(
                               pj, input_split_function, enriched, now, nobj + 1)
              /\ clock' = now
              /\ nobj' = nobj + 1
    /\ pc' = "get_mean_coefs"
    /\ UNCHANGED <<pid, pj, input_split_function, components, mean_coefs, valid,
                   last_coefdict, result, error, calls, direct, tracy>>

\* line 50: mean_coefs = db.get_energy_split_coefs(pj, mean=True)
GetMeanCoefs ==
    /\ pc = "get_mean_coefs"
    /\ \E outcome \in Outcomes :
          /\ calls' = Append(calls, Call("get_energy_split_coefs", pj.id, "mean",
                                         NoFrame, outcome))
          /\ IF outcome = "ok"
             THEN /\ mean_coefs' \in MeanCoefSets
                  /\ pc' = "validate"
                  /\ UNCHANGED error
             ELSE /\ Raise("get_energy_split_coefs")
                  /\ UNCHANGED mean_coefs
    /\ UNCHANGED <<pid, pj, input_split_function, components, coefdict, coefsdf,
                   valid, last_coefdict, result, clock, nobj, direct, tracy>>

\* the test of line 51 inverted: valid coefficients alert, rejected ones are written
Validate_inverted ==
    /\ pc = "validate"
    /\ valid' = are_new_coefs_valid(coefdict, mean_coefs)
    /\ CASE valid' = "True" -> pc' = "post_teams_alert" /\ UNCHANGED error
         [] valid' = "False" -> pc' = "write" /\ UNCHANGED error
         [] OTHER -> Raise("KeyError")
    /\ UNCHANGED <<pid, pj, input_split_function, components, coefdict, coefsdf,
                   mean_coefs, last_coefdict, result, calls, clock, nobj, call, mem, ret, tracy>>

\* line 51: if are_new_coefs_valid(coefdict, mean_coefs) is False
Validate ==
    /\ pc = "validate"
    /\ valid' = are_new_coefs_valid(coefdict, mean_coefs)
    /\ CASE valid' = "False" -> pc' = "post_teams_alert" /\ UNCHANGED error
         [] valid' = "True" -> pc' = "write" /\ UNCHANGED error
         [] OTHER -> Raise("KeyError")
    /\ UNCHANGED <<pid, pj, input_split_function, components, coefdict, coefsdf,
                   mean_coefs, last_coefdict, result, calls, clock, nobj, direct, tracy>>

\* what monitoring.post_teams_alert may do: deliver the alert and return, or
\* raise when the delivery fails
PostTeamsAlertOutcomes == {"ok", "raised"}

\* the alert wrapped in try/except: a failed delivery is swallowed
PostTeamsAlert_swallow ==
    /\ pc = "post_teams_alert"
    /\ \E outcome \in PostTeamsAlertOutcomes :
          calls' = Append(calls, Call("post_teams_alert", pj.id, "", coefsdf, outcome))
    /\ pc' = "get_last_coefs"
    /\ UNCHANGED <<pid, pj, input_split_function, components, coefdict, coefsdf,
                   mean_coefs, valid, last_coefdict, result, error, clock, nobj,
                   call, mem, ret, tracy>>

\* lines 54-59: monitoring.post_teams_alert(message with pj["id"], coefsdf=coefsdf)
PostTeamsAlert ==
    /\ pc = "post_teams_alert"
    /\ \E outcome \in PostTeamsAlertOutcomes :
          /\ calls' = Append(calls, Call("post_teams_alert", pj.id, "", coefsdf, outcome))
          /\ IF outcome = "ok"
             THEN /\ pc' = "get_last_coefs"
                  /\ UNCHANGED error
             ELSE Raise("post_teams_alert")
    /\ UNCHANGED <<pid, pj, input_split_function, components, coefdict, coefsdf,
                   mean_coefs, valid, last_coefdict, result, clock, nobj, direct, tracy>>

\* line 61: last_coefdict = db.get_energy_split_coefs(pj)
GetLastCoefs ==
    /\ pc = "get_last_coefs"
    /\ \E outcome \in Outcomes :
          /\ calls' = Append(calls, Call("get_energy_split_coefs", pj.id, "last",
                                         NoFrame, outcome))
          /\ IF outcome = "ok"
             THEN /\ last_coefdict' \in LastCoefSets
                  /\ pc' = "return_last"
                  /\ UNCHANGED error
             ELSE /\ Raise("get_energy_split_coefs")
                  /\ UNCHANGED last_coefdict
    /\ UNCHANGED <<pid, pj, input_split_function, components, coefdict, coefsdf,
                   mean_coefs, valid, result, clock, nobj, direct, tracy>>

\* the rejection branch returning the candidate record
ReturnLast_candidate ==
    /\ pc = "return_last"
    /\ result' = coefsdf
    /\ pc' = "done"
    /\ UNCHANGED <<pid, pj, input_split_function, components, coefdict, coefsdf,
                   mean_coefs, valid, last_coefdict, error, calls, clock, nobj,
                   call, mem, ret, tracy>>

\* lines 62-65: return convert_coefdict_to_coefsdf(pj, input_split_function, last_coefdict)
ReturnLast ==
    /\ pc = "return_last"
    /\ \E now \in Readings :
          /\ result' = convert_coefdict_to_coefsdf(
                          pj, input_split_function, last_coefdict, now, nobj + 1)
          /\ clock' = now
          /\ nobj' = nobj + 1
    /\ pc' = "done"
    /\ UNCHANGED <<pid, pj, input_split_function, components, coefdict, coefsdf,
                   mean_coefs, valid, last_coefdict, error, calls, direct, tracy>>

\* the write replacing the stored coefficients instead of appending
WriteCoefs_replace ==
    /\ pc = "write"
    /\ \E outcome \in Outcomes :
          /\ calls' = Append(calls, Call("write_energy_splitting_coefficients",
                                         pj.id, "replace", coefsdf, outcome))
          /\ IF outcome = "ok"
             THEN /\ result' = coefsdf
                  /\ pc' = "done"
                  /\ UNCHANGED error
             ELSE /\ Raise("write_energy_splitting_coefficients")
                  /\ UNCHANGED result
    /\ UNCHANGED <<pid, pj, input_split_function, components, coefdict, coefsdf,
                   mean_coefs, valid, last_coefdict, clock, nobj, call, mem, ret, tracy>>

\* the alert sent on every run: accepted coefficients are written and alerted
WriteCoefs_then_alert ==
    /\ pc = "write"
    /\ \E outcome \in Outcomes :
          /\ calls' = calls \o
                 << Call("write_energy_splitting_coefficients", pj.id, "append",
                         coefsdf, "ok"),
                    Call("post_teams_alert", pj.id, "", coefsdf, outcome) >>
          /\ IF outcome = "ok"
             THEN /\ result' = coefsdf
                  /\ pc' = "done"
                  /\ UNCHANGED error
             ELSE /\ Raise("post_teams_alert")
                  /\ UNCHANGED result
    /\ UNCHANGED <<pid, pj, input_split_function, components, coefdict, coefsdf,
                   mean_coefs, valid, last_coefdict, clock, nobj, call, mem, ret, tracy>>

\* lines 68-70: db.write_energy_splitting_coefficients(coefsdf, if_exists="append")
WriteCoefs ==
    /\ pc = "write"
    /\ \E outcome \in Outcomes :
          /\ calls' = Append(calls, Call("write_energy_splitting_coefficients",
                                         pj.id, "append", coefsdf, outcome))
          /\ IF outcome = "ok"
             THEN /\ result' = coefsdf
                  /\ pc' = "done"
                  /\ UNCHANGED error
             ELSE /\ Raise("write_energy_splitting_coefficients")
                  /\ UNCHANGED result
    /\ UNCHANGED <<pid, pj, input_split_function, components, coefdict, coefsdf,
                   mean_coefs, valid, last_coefdict, clock, nobj, direct, tracy>>

----------------------------------------------------------------------------
(* Direct calls *)

locals == <<pid, pj, input_split_function, components, coefdict, coefsdf,
            mean_coefs, valid, last_coefdict, result, error, calls, nobj>>

\* are_new_coefs_valid(new_coefs, mean_coefs)
CallAreNewCoefsValid ==
    /\ pc = "direct"
    /\ call.fn = "are_new_coefs_valid"
    /\ ret' = [fn |-> call.fn,
               value |-> are_new_coefs_valid(call.new_coefs, call.mean_coefs)]
    /\ pc' = "returned"
    /\ UNCHANGED <<locals, clock, call, mem, tracy>>

\* convert_coefdict_to_coefsdf(pj, input_split_function, coefdict)
CallConvertCoefdictToCoefsdf ==
    /\ pc = "direct"
    /\ call.fn = "convert_coefdict_to_coefsdf"
    /\ \E now \in Readings :
          /\ ret' = [fn |-> call.fn,
                     value |-> convert_coefdict_to_coefsdf(
                                  call.pj, mem.df, mem.coefdict, now, 1)]
          /\ clock' = now
    /\ mem' = [fn |-> call.fn] @@ convert_arguments_after(mem.df, mem.coefdict)
    /\ pc' = "returned"
    /\ UNCHANGED <<locals, call, tracy>>

\* find_components(df, zero_bound); fitted is what curve_fit returned
CallFindComponents ==
    /\ pc = "direct"
    /\ call.fn = "find_components"
    /\ \E outcome \in Outcomes :
          IF outcome = "ok"
          THEN \E fitted \in CurveFitResults(call.df, call.zero_bound) :
                  ret' = [fn |-> call.fn, raised |-> FALSE, fitted |-> fitted,
                          value |-> find_components(call.df, fitted)]
          ELSE ret' = [fn |-> call.fn, raised |-> TRUE]
    /\ pc' = "returned"
    /\ UNCHANGED <<locals, clock, call, mem, tracy>>

Next ==
    \/ GetPredictionJob
    \/ GetInputEnergySplitting
    \/ FindComponents
    \/ ScoreAndConvert
    \/ GetMeanCoefs
    \/ Validate
    \/ PostTeamsAlert
    \/ GetLastCoefs
    \/ ReturnLast
    \/ WriteCoefs
    \/ CallAreNewCoefsValid
    \/ CallConvertCoefdictToCoefsdf
    \/ CallFindComponents

Spec == Init /\ [][Next]_vars

----------------------------------------------------------------------------
(* run_tracy, one action per statement that reaches the database or Teams   *)

InitTracy ==
    /\ InitLocals
    /\ pc = "idle"
    /\ pid = 0
    /\ call = Idle
    /\ mem = Idle
    /\ ret = Idle
    /\ todolist \in TodoLists
    /\ todolist0 = todolist
    /\ runs = [p \in Invocations |-> NewRun("start")]

split == <<pc, locals, clock, call, mem, ret>>

\* ktp_api.get_all_tracy_jobs(inprogress=0): the rows with that flag, by id
RECURSIVE JobsFrom(_, _, _)
JobsFrom(table, flag, id) ==
    IF id > Len(table) THEN <<>>
    ELSE IF table[id].present /\ table[id].inprogress = flag
         THEN <<[id |-> id, function |-> table[id].function,
                 inprogress |-> table[id].inprogress]>>
              \o JobsFrom(table, flag, id + 1)
         ELSE JobsFrom(table, flag, id + 1)

\* the to do list fetched without the inprogress filter
RECURSIVE AllJobsFrom(_, _)
AllJobsFrom(table, id) ==
    IF id > Len(table) THEN <<>>
    ELSE IF table[id].present
         THEN <<[id |-> id, function |-> table[id].function,
                 inprogress |-> table[id].inprogress]>>
              \o AllJobsFrom(table, id + 1)
         ELSE AllJobsFrom(table, id + 1)

get_all_tracy_jobs_any_flag(table, flag) == AllJobsFrom(table, 1)

get_all_tracy_jobs(table, flag) == JobsFrom(table, flag, 1)

\* ktp_api.update_tracy_job(job): the row of job's id takes job's columns;
\* a row that is gone is not brought back
update_tracy_job(table, job) ==
    IF table[job.id].present
    THEN [table EXCEPT ![job.id] = Row(job.function, job.inprogress)]
    ELSE table

\* ktp_api.delete_tracy_job(job)
delete_tracy_job(table, job) == [table EXCEPT ![job.id] = DeletedRow]

\* lines 70-84: the task a function name is dispatched to
TaskOf(function) ==
    IF function \in {"train_model", "train_specific_model"}
    THEN "train_model_task"
    ELSE IF function \in {"optimize_hyperparameters",
                          "optimize_hyperparameters_for_specific_pid"}
         THEN "optimize_hyperparameters_task"
         ELSE "none"

\* the for loop of line 59 moves to the next job, or ends
NextJob(run) ==
    IF run.i < Len(run.jobs)
    THEN [run EXCEPT !.i = run.i + 1, !.pc = "set_inprogress"]
    ELSE [run EXCEPT !.i = run.i + 1, !.pc = "done"]

\* lines 50-57: fetch the to do list; return when it is empty
GetAllTracyJobs(p) ==
    /\ runs[p].pc = "start"
    /\ LET tracy_jobs == get_all_tracy_jobs(todolist, 0)
           run == [runs[p] EXCEPT !.jobs = tracy_jobs, !.seen = todolist]
       IN  runs' = [runs EXCEPT ![p] =
                       IF Len(tracy_jobs) = 0
                       THEN [run EXCEPT !.pc = "done"]
                       ELSE NextJob(run)]
    /\ UNCHANGED <<todolist, todolist0, split>>

\* lines 61-62: job["inprogress"] = 1; update_tracy_job(job)
SetInProgress(p) ==
    /\ runs[p].pc = "set_inprogress"
    /\ LET run == runs[p]
           job == [run.jobs[run.i] EXCEPT !.inprogress = 1]
       IN  /\ todolist' = update_tracy_job(todolist, job)
           /\ runs' = [runs EXCEPT ![p] =
                          [run EXCEPT !.jobs[run.i] = job,
                                      !.dbops = Append(@, [op |-> "update", id |-> job.id,
                                                           inprogress |-> 1]),
                                      !.pc = "execute"]]
    /\ UNCHANGED <<todolist0, split>>

\* the task run outside try: an exception ends the run
ExecuteJob_uncaught(p) ==
    /\ runs[p].pc = "execute"
    /\ LET run == runs[p]
           job == run.jobs[run.i]
           task == TaskOf(job.function)
       IN  IF task = "none"
           THEN runs' = [runs EXCEPT ![p] = NextJob(run)]
           ELSE \E outcome \in Outcomes :
                   runs' = [runs EXCEPT ![p] =
                               [run EXCEPT
                                   !.executed = Append(@, [id |-> job.id, task |-> task,
                                                           outcome |-> outcome]),
                                   !.i = IF outcome = "ok" THEN @ ELSE Len(run.jobs) + 1,
                                   !.pc = IF outcome = "ok" THEN "finish" ELSE "done"]]
    /\ UNCHANGED <<todolist, todolist0, pc, locals, clock, call, mem, ret>>

\* lines 68-84: run the task of the job inside try; an unknown function is
\* logged and the loop continues with the next job
ExecuteJob(p) ==
    /\ runs[p].pc = "execute"
    /\ LET run == runs[p]
           job == run.jobs[run.i]
           task == TaskOf(job.function)
       IN  IF task = "none"
           THEN runs' = [runs EXCEPT ![p] = NextJob(run)]
           ELSE \E outcome \in Outcomes :
                   runs' = [runs EXCEPT ![p] =
                               [run EXCEPT
                                   !.executed = Append(@, [id |-> job.id, task |-> task,
                                                           outcome |-> outcome]),
                                   !.pc = IF outcome = "ok" THEN "finish" ELSE "except"]]
    /\ UNCHANGED <<todolist, todolist0, split>>

\* lines 87-93: job["inprogress"] = 2; update_tracy_job(job); post the
\* exception message; control then leaves the try statement
HandleException(p) ==
    /\ runs[p].pc = "except"
    /\ LET run == runs[p]
           job == [run.jobs[run.i] EXCEPT !.inprogress = 2]
       IN  /\ todolist' = update_tracy_job(todolist, job)
           /\ runs' = [runs EXCEPT ![p] =
                          [run EXCEPT !.jobs[run.i] = job,
                                      !.dbops = Append(@, [op |-> "update", id |-> job.id,
                                                           inprogress |-> 2]),
                                      !.posts = Append(@, [id |-> job.id,
                                                           kind |-> "exception"]),
                                      !.pc = "finish"]]
    /\ UNCHANGED <<todolist0, split>>

\* lines 95-101: post the success message and delete the job
FinishJob(p) ==
    /\ runs[p].pc = "finish"
    /\ LET run == runs[p]
           job == run.jobs[run.i]
       IN  /\ todolist' = delete_tracy_job(todolist, job)
           /\ runs' = [runs EXCEPT ![p] =
                          NextJob([run EXCEPT
                                      !.posts = Append(@, [id |-> job.id,
                                                           kind |-> "success"]),
                                      !.dbops = Append(@, [op |-> "delete", id |-> job.id,
                                                           inprogress |-> job.inprogress])])]
    /\ UNCHANGED <<todolist0, split>>

NextTracy ==
    \/ \E p \in Invocations : GetAllTracyJobs(p)
    \/ \E p \in Invocations : SetInProgress(p)
    \/ \E p \in Invocations : ExecuteJob(p)
    \/ \E p \in Invocations : HandleException(p)
    \/ \E p \in Invocations : FinishJob(p)

SpecTracy == InitTracy /\ [][NextTracy]_vars

\* every statement of one invocation
TracyStep(p) ==
    \/ GetAllTracyJobs(p)
    \/ SetInProgress(p)
    \/ ExecuteJob(p)
    \/ HandleException(p)
    \/ FinishJob(p)

\* one invocation of run_tracy on its own; the other one is never made
InitTracyAlone ==
    /\ InitLocals
    /\ pc = "idle"
    /\ pid = 0
    /\ call = Idle
    /\ mem = Idle
    /\ ret = Idle
    /\ todolist \in TodoLists
    /\ todolist0 = todolist
    /\ runs = [p \in Invocations |-> IF p = "first" THEN NewRun("start") ELSE NewRun("done")]

\* the interpreter runs the statements of a called function one after another:
\* an invocation that can take its next step takes it
SpecTracyFair ==
    InitTracyAlone /\ [][NextTracy]_vars /\ WF_vars(TracyStep("first"))

----------------------------------------------------------------------------
(* Properties *)

Finished == pc \in {"done", "raised"}

Writes == CallsOf("write_energy_splitting_coefficients")
Alerts == CallsOf("post_teams_alert")

\* t is the smallest / the largest entry of the index idx
IsEarliest(t, idx) == (\E i \in DOMAIN idx : idx[i] = t) /\ (\A i \in DOMAIN idx : t <= idx[i])
IsLatest(t, idx) == (\E i \in DOMAIN idx : idx[i] = t) /\ (\A i \in DOMAIN idx : t >= idx[i])

\* day d is the date of timestamp t
IsDateOf(d, t) == d * HOURS_PER_DAY <= t /\ t < (d + 1) * HOURS_PER_DAY

\* frame holds one row per entry of cd, in order, each with the job id and the
\* dates of the earliest and the latest index entry of df
IsRecordOf(frame, job_id, df, cd) ==
    /\ Len(frame.rows) = Len(cd)
    /\ \A i \in DOMAIN frame.rows :
          LET row == frame.rows[i]
          IN  /\ row.coef_name = cd[i].k
              /\ row.coef_value = cd[i].v
              /\ row.pid = job_id
              /\ \E t \in {df.index[n] : n \in DOMAIN df.index} :
                    IsEarliest(t, df.index) /\ IsDateOf(row.date_start, t)
              /\ \E t \in {df.index[n] : n \in DOMAIN df.index} :
                    IsLatest(t, df.index) /\ IsDateOf(row.date_end, t)

\* C1: when the validator rejects, write_energy_splitting_coefficients is never
\* called, and once the alert statement has run post_teams_alert was called
\* exactly once, with the job id and the candidate record built from the
\* freshly fitted coefficients.
C1_RejectionAlertsOnceAndNeverWrites ==
    valid = "False" =>
        /\ Writes = <<>>
        /\ IF pc = "post_teams_alert"
           THEN Alerts = <<>>
           ELSE /\ Len(Alerts) = 1
                /\ Alerts[1].pid = pid
                /\ Alerts[1].df = coefsdf
                /\ IsRecordOf(coefsdf, pid, input_split_function, coefdict)

C1_Witness == valid = "False" /\ pc = "done" /\ Len(Alerts) = 1

\* C2: when the validator rejects and split_energy returns, the returned record
\* is the result of get_energy_split_coefs(pj) (no mean) converted with the
\* current job and input table, and it is another object than the candidate.
C2_RejectionReturnsLastKnown ==
    (valid = "False" /\ pc = "done") =>
        /\ calls[Len(calls)].op = "get_energy_split_coefs"
        /\ calls[Len(calls)].mode = "last"
        /\ calls[Len(calls)].pid = pid
        /\ IsRecordOf(result, pid, input_split_function, last_coefdict)
        /\ result.obj # coefsdf.obj

\* the stored last coefficients equal the rejected candidate's, entry by entry
C2_Witness ==
    /\ valid = "False"
    /\ pc = "done"
    /\ last_coefdict = coefdict
    /\ last_coefdict # <<>>

\* C3: when the validator accepts, the alert is never sent, the write happens
\* exactly once, in append mode and with the candidate record, and the record
\* returned is the record that was written.
C3_AcceptanceWritesOnceAndReturnsWritten ==
    valid = "True" =>
        /\ Alerts = <<>>
        /\ pc = "write" => Writes = <<>>
        /\ Finished =>
              /\ Len(Writes) = 1
              /\ Writes[1].mode = "append"
              /\ Writes[1].df = coefsdf
              /\ Writes[1].df.obj # 0
        /\ pc = "done" => result = Writes[1].df

C3_Witness == valid = "True" /\ pc = "done" /\ Len(Writes) = 1

\* new holds every key of mean
HoldsAllKeys(new, mean) == \A i \in DOMAIN mean : HasKey(new, mean[i].k)

\* every key of mean deviates by at most 30% of the mean's absolute value
WithinThirtyPercent(new, mean) ==
    \A i \in DOMAIN mean :
        \E j \in DOMAIN new :
            /\ new[j].k = mean[i].k
            /\ 10 * Abs(mean[i].v - new[j].v) <= 3 * Abs(mean[i].v)

\* C4: when new_coefs holds every key of mean_coefs, are_new_coefs_valid
\* returns True exactly when every key deviates by at most 30% of the absolute
\* mean (boundary included), and False otherwise.
C4_ValidIffWithinThirtyPercent ==
    (ret.fn = "are_new_coefs_valid" /\ HoldsAllKeys(call.new_coefs, call.mean_coefs)) =>
        /\ ret.value \in {"True", "False"}
        /\ ret.value = "True" <=> WithinThirtyPercent(call.new_coefs, call.mean_coefs)

\* a deviation of exactly 30% is accepted, next to a mean of 0 met by a 0
C4_Witness ==
    /\ ret.fn = "are_new_coefs_valid"
    /\ call.mean_coefs = <<[k |-> "wind_ref", v |-> 20], [k |-> "pv_ref", v |-> 0]>>
    /\ call.new_coefs = <<[k |-> "pv_ref", v |-> 0], [k |-> "wind_ref", v |-> 26]>>
    /\ ret.value = "True"

\* C5: with an empty mean_coefs are_new_coefs_valid returns True whatever
\* new_coefs is, and split_energy then goes on to the write and never alerts.
C5_NoHistoryIsValid ==
    /\ (ret.fn = "are_new_coefs_valid" /\ call.mean_coefs = <<>>) => ret.value = "True"
    /\ (valid # "none" /\ mean_coefs = <<>>) =>
          /\ valid = "True"
          /\ Alerts = <<>>
          /\ pc = "write" \/ (Finished /\ Len(Writes) = 1)

C5_Witness == valid = "True" /\ mean_coefs = <<>> /\ pc = "done" /\ result = coefsdf

\* C6: the accept/reject decision of split_energy equals the decision taken on
\* the reference-profile weights alone, the MAE entry left out of both dicts.
C6_MaeExcludedFromValidation ==
    valid \in {"True", "False"} =>
        valid = are_new_coefs_valid(WithoutKey(coefdict, "MAE"),
                                    WithoutKey(mean_coefs, "MAE"))

\* the frames find_components has returned: to a direct caller, or to split_energy
FoundComponents ==
    IF ret.fn = "find_components" /\ ~ret.raised THEN ret.value.components
    ELSE components

\* C7 as stated: Residu = Inschatting - load in every row
C7_ResiduIsEstimateMinusLoad ==
    \A r \in DOMAIN FoundComponents :
        FoundComponents[r].Residu = FoundComponents[r].Inschatting - FoundComponents[r].load

\* C7, amended: in every row of the components frame Residu equals load minus
\* estimate (load - Inschatting) exactly.
C7_ResiduIsLoadMinusEstimate ==
    \A r \in DOMAIN FoundComponents :
        FoundComponents[r].Residu = FoundComponents[r].load - FoundComponents[r].Inschatting

C7_Witness ==
    /\ ret.fn = "find_components"
    /\ ~ret.raised
    /\ \E r \in DOMAIN FoundComponents : FoundComponents[r].Residu > 0
    /\ \E r \in DOMAIN FoundComponents : FoundComponents[r].Residu < 0

\* C8: a fitted weight is returned as 0 exactly when its absolute value is
\* below 0.1, and unchanged otherwise, whatever zero_bound is.
C8_ClampsOnAbsoluteValue ==
    (ret.fn = "find_components" /\ ~ret.raised) =>
        \A j \in DOMAIN ret.fitted :
            LET returned == ret.value.coefdict[j].v
            IN  /\ Abs(ret.fitted[j]) < ALMOST_ZERO => returned = 0
                /\ Abs(ret.fitted[j]) >= ALMOST_ZERO => returned = ret.fitted[j]

\* C9: convert_coefdict_to_coefsdf returns one row per key of the dict, in key
\* order, with the key and its value, the job id and the dates of the minimum
\* and the maximum of the table's index; the dict and the table are unchanged.
C9_ConvertShapeAndPurity ==
    /\ ret.fn = "convert_coefdict_to_coefsdf" =>
          /\ IsRecordOf(ret.value, call.pj.id, call.input_split_function, call.coefdict)
          /\ mem.df = call.input_split_function
          /\ mem.coefdict = call.coefdict
    /\ coefsdf # NoFrame => IsRecordOf(coefsdf, pid, input_split_function, coefdict)
    /\ pc = "done" /\ valid = "False" =>
          IsRecordOf(result, pid, input_split_function, last_coefdict)

\* two rows from an unsorted index that spans three days
C9_Witness ==
    /\ ret.fn = "convert_coefdict_to_coefsdf"
    /\ call.input_split_function.index = <<50, 3>>
    /\ Len(ret.value.rows) = 2
    /\ ret.value.rows[1].date_start = 0
    /\ ret.value.rows[2].date_end = 2

\* C10 as stated: after a rejection split_energy returns a record unless the
\* fetch of the last known coefficients fails, also when the alert fails.
C10_RejectionAlwaysReturnsRecord ==
    (valid = "False" /\ Finished /\ error # "get_energy_split_coefs") =>
        pc = "done" /\ result # NoFrame

\* C10, amended: after a rejection split_energy returns a record when the alert
\* is delivered and the fetch of the last known coefficients succeeds; when the
\* delivery of the alert raises, the error reaches the caller, no record is
\* returned and the last known coefficients are not fetched.
C10_RejectionReturnsRecordUnlessAlertFails ==
    (valid = "False" /\ Finished) =>
        /\ Len(Alerts) = 1
        /\ IF Alerts[1].outcome = "raised"
           THEN /\ pc = "raised"
                /\ error = "post_teams_alert"
                /\ result = NoFrame
                /\ calls[Len(calls)].op = "post_teams_alert"
           ELSE \/ pc = "done" /\ error = "" /\ result.obj # 0
                \/ pc = "raised" /\ error = "get_energy_split_coefs" /\ result = NoFrame

C10_Witness ==
    /\ valid = "False"
    /\ pc = "raised"
    /\ error = "post_teams_alert"

\* some call of curve_fit did not converge
FitFailed == \E i \in DOMAIN calls : calls[i].op = "curve_fit" /\ calls[i].outcome = "raised"

\* C11: when curve_fit fails to converge the error leaves split_energy: the
\* fit was tried exactly once and is the last thing done, nothing is written,
\* no alert is sent and no record is returned.
C11_FitFailurePropagates ==
    FitFailed =>
        /\ pc = "raised"
        /\ error = "curve_fit"
        /\ Len(CallsOf("curve_fit")) = 1
        /\ calls[Len(calls)].op = "curve_fit"
        /\ Writes = <<>>
        /\ Alerts = <<>>
        /\ result = NoFrame
        /\ coefsdf = NoFrame

C11_Witness == FitFailed /\ pc = "raised" /\ Len(calls) = 3

\* the collaborator calls of the two complete runs, as <<operation, mode>>
AcceptedRun ==
    << <<"get_prediction_job", "">>, <<"get_input_energy_splitting", "">>,
       <<"curve_fit", "">>, <<"get_energy_split_coefs", "mean">>,
       <<"write_energy_splitting_coefficients", "append">> >>

RejectedRun ==
    << <<"get_prediction_job", "">>, <<"get_input_energy_splitting", "">>,
       <<"curve_fit", "">>, <<"get_energy_split_coefs", "mean">>,
       <<"post_teams_alert", "">>, <<"get_energy_split_coefs", "last">> >>

IsPrefix(s, t) == Len(s) <= Len(t) /\ \A i \in DOMAIN s : s[i] = t[i]

CallsMade == [i \in DOMAIN calls |-> <<calls[i].op, calls[i].mode>>]

\* C14: the calls of an invocation follow the order job, input table, fit,
\* historical mean, and then either the write alone or the alert followed by
\* the fetch of the last known coefficients, each at most once; the MAE is
\* computed between the fit and the fetch of the mean, the validation follows
\* that fetch, the write happens only after an acceptance and the alert only
\* after a rejection.
C14_StepsInOrder ==
    /\ IsPrefix(CallsMade, AcceptedRun) \/ IsPrefix(CallsMade, RejectedRun)
    /\ \A i \in DOMAIN calls : i < Len(calls) => calls[i].outcome = "ok"
    /\ HasKey(coefdict, "MAE") =>
          Len(calls) >= 3 /\ calls[3].outcome = "ok" /\ pc # "score"
    /\ Len(calls) >= 4 => HasKey(coefdict, "MAE") /\ coefsdf # NoFrame
    /\ valid # "none" => Len(calls) >= 4 /\ calls[4].outcome = "ok"
    /\ Len(calls) >= 5 => valid \in {"True", "False"}
    /\ Writes # <<>> => valid = "True"
    /\ Alerts # <<>> => valid = "False"
    /\ pc = "done" => CallsMade \in {AcceptedRun, RejectedRun}

C14_Witness == pc = "done" /\ CallsMade = RejectedRun

\* the first key of mean that new lacks
FirstMissing(new, mean) ==
    CHOOSE m \in DOMAIN mean :
        /\ ~HasKey(new, mean[m].k)
        /\ \A j \in 1..(m - 1) : HasKey(new, mean[j].k)

\* the keys of mean before the m-th deviate by at most 30%
EarlierKeysPass(new, mean, m) ==
    \A j \in 1..(m - 1) :
        \E n \in DOMAIN new :
            /\ new[n].k = mean[j].k
            /\ 10 * Abs(mean[j].v - new[n].v) <= 3 * Abs(mean[j].v)

\* what are_new_coefs_valid does when mean holds a key that new lacks
LookupErrorUnlessFailedEarlier(new, mean, outcome) ==
    IF HoldsAllKeys(new, mean) THEN outcome # "KeyError"
    ELSE IF EarlierKeysPass(new, mean, FirstMissing(new, mean))
         THEN outcome = "KeyError"
         ELSE outcome = "False"

\* C19: when mean_coefs holds a key that new_coefs lacks, are_new_coefs_valid
\* raises a KeyError unless an earlier key already failed the 30% check (then
\* it returns False); in split_energy the KeyError leaves the invocation with
\* no write, no alert and no record returned.
C19_MissingKeyRaisesLookupError ==
    /\ ret.fn = "are_new_coefs_valid" =>
          LookupErrorUnlessFailedEarlier(call.new_coefs, call.mean_coefs, ret.value)
    /\ valid # "none" => LookupErrorUnlessFailedEarlier(coefdict, mean_coefs, valid)
    /\ valid = "KeyError" =>
          /\ pc = "raised"
          /\ error = "KeyError"
          /\ Writes = <<>>
          /\ Alerts = <<>>
          /\ result = NoFrame

C19_Witness ==
    /\ valid = "KeyError"
    /\ pc = "raised"
    /\ mean_coefs = <<[k |-> "wind_ref", v |-> 20], [k |-> "tdcv2", v |-> 20]>>

\* the table and the coefficient dict that belong to FoundComponents
FoundTable ==
    IF ret.fn = "find_components" /\ ~ret.raised THEN call.df ELSE input_split_function

FoundCoefdict ==
    IF ret.fn = "find_components" /\ ~ret.raised THEN ret.value.coefdict ELSE coefdict

\* C20: the frame has one row per input row, and in every row the estimate is
\* the sum of the three components, each built from the returned coefficients:
\* wind_ref times the first, pv_ref times the second, and the remaining
\* columns times theirs.
C20_EstimateIsSumOfComponents ==
    FoundComponents # <<>> =>
        /\ Len(FoundComponents) = Len(FoundTable.values)
        /\ \A r \in DOMAIN FoundComponents :
              LET row == FoundComponents[r]
                  cells == FoundTable.values[r]
              IN  /\ row.Inschatting
                        = row.Windopwek + row.Zonne_opwek + row.StandaardVerbruik
                  /\ row.Windopwek = cells[2] * FoundCoefdict[1].v
                  /\ row.Zonne_opwek = cells[3] * FoundCoefdict[2].v
                  /\ row.StandaardVerbruik
                        = SumSeq([c \in 1..(Len(cells) - 3) |->
                                     cells[c + 3] * FoundCoefdict[c + 2].v])

\* two standard profiles, and a fitted weight below the noise floor
C20_Witness ==
    /\ ret.fn = "find_components"
    /\ ~ret.raised
    /\ Len(call.df.columns) = 5
    /\ ret.fitted = <<1, 20, 2, 20>>
    /\ ret.value.components[1].StandaardVerbruik = 20

----------------------------------------------------------------------------
(* Properties of run_tracy *)

\* no other invocation has started
Alone(p) == \A q \in Invocations \ {p} : runs[q].pc = "start"

ExecutedBy(p) == {runs[p].executed[n].id : n \in DOMAIN runs[p].executed}

FetchedBy(p) == {runs[p].jobs[n].id : n \in DOMAIN runs[p].jobs}

\* the task of job id was run by p with this outcome
RanWith(p, id, outcome) ==
    \E n \in DOMAIN runs[p].executed :
        runs[p].executed[n].id = id /\ runs[p].executed[n].outcome = outcome

\* p posted a message of this kind for job id
Posted(p, id, kind) ==
    \E n \in DOMAIN runs[p].posts :
        runs[p].posts[n].id = id /\ runs[p].posts[n].kind = kind

\* C12: no job's task is executed by both of two invocations that run against
\* the same todolist table.
C12_NoJobExecutedTwice ==
    \A p, q \in Invocations : p # q => ExecutedBy(p) \cap ExecutedBy(q) = {}

\* C13: once a run that ran alone is over, every job whose task raised is still
\* in the table with inprogress = 2, and every job that is gone from the table
\* had its task return without raising.
C13_FailedJobStaysAsFailed ==
    \A p \in Invocations :
        (Alone(p) /\ runs[p].pc = "done") =>
            \A id \in DOMAIN todolist :
                /\ RanWith(p, id, "raised") =>
                      todolist[id].present /\ todolist[id].inprogress = 2
                /\ (todolist0[id].present /\ ~todolist[id].present) =>
                      RanWith(p, id, "ok")

\* C15: the success message is posted only for a job whose task returned
\* without raising; for a job whose task raised only the exception message is
\* posted.
C15_SuccessPostedOnlyOnSuccess ==
    \A p \in Invocations :
        \A id \in DOMAIN todolist :
            /\ Posted(p, id, "success") => RanWith(p, id, "ok")
            /\ RanWith(p, id, "raised") => ~Posted(p, id, "success")

\* C16: once a run that ran alone has returned, every job it fetched is
\* deleted from the table or marked failed (2), none is left at inprogress = 1.
C16_NoFetchedJobLeftInProgress ==
    \A p \in Invocations :
        (Alone(p) /\ runs[p].pc = "done") =>
            \A id \in FetchedBy(p) :
                ~todolist[id].present \/ todolist[id].inprogress = 2

\* row id of table is a pending job
Pending(table, id) == table[id].present /\ table[id].inprogress = 0

\* C17: a run touches only the jobs that were pending (inprogress = 0) in the
\* table it fetched: every update, delete, executed task and posted message is
\* for such a job; rows in progress or failed before the runs are unchanged
\* and never executed; a run that finds no pending job does nothing.
C17_OnlyPendingJobsTouched ==
    /\ \A p \in Invocations :
          LET run == runs[p]
          IN  /\ \A id \in FetchedBy(p) : Pending(run.seen, id)
              /\ run.pc # "start" =>
                    \A id \in DOMAIN run.seen : Pending(run.seen, id) => id \in FetchedBy(p)
              /\ \A n \in DOMAIN run.dbops : Pending(run.seen, run.dbops[n].id)
              /\ \A n \in DOMAIN run.executed : Pending(run.seen, run.executed[n].id)
              /\ \A n \in DOMAIN run.posts : Pending(run.seen, run.posts[n].id)
              /\ (run.pc # "start" /\ \A id \in DOMAIN run.seen : ~Pending(run.seen, id)) =>
                    /\ run.pc = "done"
                    /\ run.dbops = <<>>
                    /\ run.executed = <<>>
                    /\ run.posts = <<>>
    /\ \A id \in DOMAIN todolist0 :
          ~Pending(todolist0, id) =>
              /\ todolist[id] = todolist0[id]
              /\ \A p \in Invocations : id \notin ExecutedBy(p)

\* a run over, next to a job in progress it left alone and a pending one it ran
C17_Witness ==
    /\ runs["first"].pc = "done"
    /\ Len(todolist0) = 2
    /\ todolist0[1].inprogress = 1
    /\ todolist[1] = todolist0[1]
    /\ RanWith("first", 2, "ok")

\* the ids of the jobs p fetched, in list order
FetchedIds(run) == [n \in DOMAIN run.jobs |-> run.jobs[n].id]

\* the ids p marked in progress, in the order of the updates
MarkedIds(run) ==
    LET marks == SelectSeq(run.dbops, LAMBDA o : o.op = "update" /\ o.inprogress = 1)
    IN  [n \in DOMAIN marks |-> marks[n].id]

\* the ids of the fetched jobs that name a task, in list order
TaskIds(run) ==
    LET known == SelectSeq(run.jobs, LAMBDA j : TaskOf(j.function) # "none")
    IN  [n \in DOMAIN known |-> known[n].id]

AttemptedIds(run) == [n \in DOMAIN run.executed |-> run.executed[n].id]

\* how far a run has come: the loop index, then the statement within the loop
Position(run) ==
    CASE run.pc = "start" -> 0
      [] run.pc = "set_inprogress" -> 4 * run.i
      [] run.pc = "execute" -> 4 * run.i + 1
      [] run.pc = "except" -> 4 * run.i + 2
      [] run.pc = "finish" -> 4 * run.i + 3
      [] run.pc = "done" -> 4 * (Len(run.jobs) + 1)

\* a run is over, or stands at a statement of the loop with a job to work on
CanStep(run) ==
    \/ run.pc \in {"start", "done"}
    \/ run.pc \in {"set_inprogress", "execute", "except", "finish"}
          /\ run.i \in DOMAIN run.jobs

\* the jobs are marked and attempted in list order, all of them once the run
\* is over
AllAttemptedInOrder(run) ==
    /\ CanStep(run)
    /\ IsPrefix(MarkedIds(run), FetchedIds(run))
    /\ IsPrefix(AttemptedIds(run), TaskIds(run))
    /\ run.pc = "done" =>
          /\ MarkedIds(run) = FetchedIds(run)
          /\ AttemptedIds(run) = TaskIds(run)

\* C18: whatever tasks raise, every step of a run moves it forward through the
\* fetched list, the jobs are marked in progress and attempted in list order,
\* when the run is over every fetched job was marked and every job that names
\* a task was attempted, and the run does come to its end.
C18_EveryJobAttemptedInOrder ==
    /\ [][\A p \in Invocations :
             /\ AllAttemptedInOrder(runs'[p])
             /\ runs'[p] # runs[p] => Position(runs'[p]) > Position(runs[p])]_vars
    /\ <>(runs["first"].pc = "done")

\* two jobs, the first task raised, the second was still attempted
C18_Witness ==
    /\ runs["first"].pc = "done"
    /\ Len(runs["first"].executed) = 2
    /\ runs["first"].executed[1].outcome = "raised"
    /\ runs["first"].executed[2].id = 2

====
